---- MODULE Spec2Model ----
(***************************************************************************)
(* QuantumPredictor: an encrypted prediction market.  The contract         *)
(* (contracts/QuantumPredictor.sol) keeps a registry of predictions, each  *)
(* with 2-4 options and one encrypted counter per option, a ledger of who  *)
(* has voted, and talks to the FHE library for every ciphertext.           *)
(*                                                                         *)
(* Every external function of the contract is one action: a transaction    *)
(* either commits all of its writes or reverts and leaves the storage      *)
(* alone.  Transactions are executed one at a time: `last` holds the call  *)
(* being answered (arguments, revert reason, return value) until Return    *)
(* hands the outcome to the caller, and the next call starts after that.   *)
(*                                                                         *)
(* Ciphertext handles.  The FHE library is a dependency of the contract,   *)
(* not part of it.  The fhEVM executor derives the handle of a result      *)
(* from the operation and the handles of its operands, so a handle is      *)
(* modelled as the term that produced it:                                  *)
(*    <<"triv", v>>        FHE.asEuint32(v)                                 *)
(*    <<"in", a, k>>       ciphertext of k that address a encrypted         *)
(*    <<"eq", h, i>>       FHE.eq(h, uint32(i))                             *)
(*    <<"sel", c, x, y>>   FHE.select(c, x, y)                              *)
(*    <<"add", x, y>>      FHE.add(x, y)                                    *)
(* Decrypt gives the cleartext a handle stands for.  A counter is a        *)
(* euint32 and grows by at most one per voting address, so it cannot wrap  *)
(* with the handful of addresses of the model; the sum is not reduced.     *)
(*                                                                         *)
(* The frontend (frontend/src/components/PredictionApp.tsx) is the second  *)
(* part: the useState values of the component and its handlers.  A handler *)
(* that awaits a transaction or the relayer is an entry of `running`; the  *)
(* click runs the handler up to that await, and a later step runs the rest *)
(* (the transaction on the contract, then catch and finally).  isLoading   *)
(* and refreshIndex only schedule loadPredictions, which is an action of   *)
(* its own.                                                                *)
(***************************************************************************)
EXTENDS Integers, Sequences, FiniteSets, TLC

\* ------------------------------------------------------ program constants
MinOptions == 2
MaxOptions == 4

\* ----------------------------------------------------------------- bounds
\* The registry is explored in four families of runs, each with its own
\* small input sets: Spec (two predictions, every creation input),
\* SpecVote (one prediction, every size, every choice), SpecTally (one
\* prediction, three voters) and SpecPair (two predictions, two voters).
MaxPredictions == 2
MaxOptionsInput == 5
MaxAddress == 2
MaxChoice == 4
TallyAddress == 3
TallyChoice == 2
PairAddress == 2
PairChoice == 1

\* ----------------------------------------------------------------- inputs
Labels == <<"A", "B", "C", "D", "E", "F", "G">>
\* the list of n labels whose e-th label is empty (none when e = 0)
OptionList(n, e) == [i \in 1..n |-> IF i = e THEN "" ELSE Labels[i]]
\* 1..MaxOptionsInput labels, all filled in or the first or the last one empty
OptionLists == { OptionList(n, e) : n \in 1..MaxOptionsInput, e \in {0, 1, MaxOptionsInput} }
              \cup { OptionList(n, n) : n \in 1..MaxOptionsInput }
ValidLists == { OptionList(n, 0) : n \in MinOptions..MaxOptions }

\* ---------------------------------------------------------- revert reasons
NameRequired == "Name required"
OptionsRange == "Options must be 2-4"
EmptyOption == "Empty option"
InvalidPrediction == "Invalid prediction"
BallotClosed == "Prediction closed"
AlreadyVoted == "Already voted"
AlreadyClosed == "Already closed"
InvalidProof == "Invalid proof"
ACLNotAllowed == "ACL not allowed"
InvalidInput == {NameRequired, OptionsRange, EmptyOption}
Ok == "ok"

VARIABLES predictions, hasVoted, allowed, publicDec, events, last

\* the state of the PredictionApp component (frontend): its useState values
\* and the handlers that are waiting for a transaction or the relayer
VARIABLES formTitle, formOptions, pendingAction, errorMessage, appPredictions, running

appVars == <<formTitle, formOptions, pendingAction, errorMessage, appPredictions, running>>

vars == <<predictions, hasVoted, allowed, publicDec, events, last,
          formTitle, formOptions, pendingAction, errorMessage, appPredictions, running>>

\* ------------------------------------------------------------ FHE library
asEuint32(v) == <<"triv", v>>
fromExternal(sender, k) == <<"in", sender, k>>
FHEeq(h, i) == <<"eq", h, i>>
FHEselect(c, x, y) == <<"sel", c, x, y>>
FHEadd(x, y) == <<"add", x, y>>

RECURSIVE Decrypt(_)
Decrypt(h) ==
    CASE h[1] = "triv" -> h[2]
      [] h[1] = "in"   -> h[3]
      [] h[1] = "eq"   -> IF Decrypt(h[2]) = h[3] THEN 1 ELSE 0
      [] h[1] = "sel"  -> IF Decrypt(h[2]) = 1 THEN Decrypt(h[3]) ELSE Decrypt(h[4])
      [] h[1] = "add"  -> Decrypt(h[2]) + Decrypt(h[3])

DecryptAll(handles) == [i \in 1..Len(handles) |-> Decrypt(handles[i])]

\* ------------------------------------------------------------------ state
NoCall ==
    [op |-> "none", sender |-> 0, id |-> 0, name |-> "", options |-> <<>>,
     choice |-> 0, proofOk |-> TRUE, err |-> Ok, ret |-> 0]

Call(op, sender, id, name, options, choice, proofOk, err, ret) ==
    [op |-> op, sender |-> sender, id |-> id, name |-> name, options |-> options,
     choice |-> choice, proofOk |-> proofOk, err |-> err, ret |-> ret]

\* null of the useState values
Null == "null"

Init ==
    /\ predictions = <<>>
    /\ hasVoted = {}
    /\ allowed = {}
    /\ publicDec = {}
    /\ events = <<>>
    /\ last = NoCall
    /\ formTitle = <<>>
    /\ formOptions = <<<<>>, <<>>>>
    /\ pendingAction = Null
    /\ errorMessage = Null
    /\ appPredictions = <<>>
    /\ running = <<>>

Range(s) == {s[i] : i \in 1..Len(s)}

\* a prediction id is a 0-based index into _predictions
Exists(predictionId) == predictionId < Len(predictions)
Pred(predictionId) == predictions[predictionId + 1]

\* the vote record of the reverted call stays behind
RevertKeepsVoteRecord(call) ==
    /\ last' = call
    /\ hasVoted' = IF call.op = "submitChoice" /\ call.id < Len(predictions)
                   THEN hasVoted \cup {<<call.id, call.sender>>} ELSE hasVoted
    /\ UNCHANGED <<predictions, allowed, publicDec, events>>

\* a failed require (or a revert inside the FHE library) undoes the transaction
Revert(call) ==
    /\ last' = call
    /\ UNCHANGED <<predictions, hasVoted, allowed, publicDec, events>>

\* no permission is recorded
AllowThisForgotten(handles) == allowed

\* FHE.allowThis on each of the handles: the contract may operate on them
AllowThis(handles) == allowed \cup handles

\* the event is written twice
EmitTwice(e) == Append(Append(events, e), e)

\* emit: the event is appended to the log of the transaction
Emit(e) == Append(events, e)

\* ------------------------------------------------------- createPrediction
\* only the first label is checked
CreateErrorFirstOptionOnly(name, options) ==
    IF ~(Len(name) > 0) THEN NameRequired
    ELSE IF ~(Len(options) >= MinOptions /\ Len(options) <= MaxOptions) THEN OptionsRange
    ELSE IF ~(Len(options[1]) > 0) THEN EmptyOption
    ELSE Ok

\* the upper limit is off by one
CreateErrorUpToFive(name, options) ==
    IF ~(Len(name) > 0) THEN NameRequired
    ELSE IF ~(Len(options) >= MinOptions /\ Len(options) <= MaxOptions + 1) THEN OptionsRange
    ELSE IF \E i \in 1..Len(options) : ~(Len(options[i]) > 0) THEN EmptyOption
    ELSE Ok

CreateError(name, options) ==
    IF ~(Len(name) > 0) THEN NameRequired
    ELSE IF ~(Len(options) >= MinOptions /\ Len(options) <= MaxOptions) THEN OptionsRange
    ELSE IF \E i \in 1..Len(options) : ~(Len(options[i]) > 0) THEN EmptyOption
    ELSE Ok

\* the counters start at an encrypted one
NewPredictionCountsOne(name, options, ts) ==
    [name |-> name,
     options |-> [i \in 1..Len(options) |-> options[i]],
     encryptedCounts |-> [i \in 1..Len(options) |-> asEuint32(1)],
     isOpen |-> TRUE,
     createdAt |-> ts]

NewPrediction(name, options, ts) ==
    [name |-> name,
     options |-> [i \in 1..Len(options) |-> options[i]],
     encryptedCounts |-> [i \in 1..Len(options) |-> asEuint32(0)],
     isOpen |-> TRUE,
     createdAt |-> ts]

createPrediction(sender, name, options, ts) ==
    LET err == CreateError(name, options)
        predictionId == Len(predictions)
        p == NewPrediction(name, options, ts)
    IN  IF err # Ok
        THEN Revert(Call("createPrediction", sender, 0, name, options, 0, TRUE, err, 0))
        ELSE /\ predictions' = Append(predictions, p)
             /\ allowed' = AllowThis(Range(p.encryptedCounts))
             /\ events' = Emit(
                    [type |-> "PredictionCreated", predictionId |-> predictionId,
                     who |-> sender, name |-> name, options |-> options, handle |-> <<>>])
             /\ last' = Call("createPrediction", sender, 0, name, options, 0, TRUE, Ok, predictionId)
             /\ UNCHANGED <<hasVoted, publicDec>>

\* ----------------------------------------------------------- submitChoice
\* the ledger is not consulted
SubmitErrorNoVotedCheck(predictionId, sender) ==
    IF ~(predictionId < Len(predictions)) THEN InvalidPrediction
    ELSE IF ~Pred(predictionId).isOpen THEN BallotClosed
    ELSE Ok

\* the ledger is consulted before the state of the prediction
SubmitErrorVotedFirst(predictionId, sender) ==
    IF ~(predictionId < Len(predictions)) THEN InvalidPrediction
    ELSE IF <<predictionId, sender>> \in hasVoted THEN AlreadyVoted
    ELSE IF ~Pred(predictionId).isOpen THEN BallotClosed
    ELSE Ok

\* a closed prediction still accepts votes
SubmitErrorNoClosedCheck(predictionId, sender) ==
    IF ~(predictionId < Len(predictions)) THEN InvalidPrediction
    ELSE IF <<predictionId, sender>> \in hasVoted THEN AlreadyVoted
    ELSE Ok

\* the require statements of submitChoice, in their order
SubmitError(predictionId, sender) ==
    IF ~(predictionId < Len(predictions)) THEN InvalidPrediction
    ELSE IF ~Pred(predictionId).isOpen THEN BallotClosed
    ELSE IF <<predictionId, sender>> \in hasVoted THEN AlreadyVoted
    ELSE Ok

\* the proof is not checked
FHEErrorNoProofCheck(counts, proofOk) ==
    IF \E i \in 1..Len(counts) : counts[i] \notin allowed THEN ACLNotAllowed
    ELSE Ok

\* the library calls of submitChoice that can revert: the proof check of
\* FHE.fromExternal and the permission check of FHE.add on its operand
FHEError(counts, proofOk) ==
    IF ~proofOk THEN InvalidProof
    ELSE IF \E i \in 1..Len(counts) : counts[i] \notin allowed THEN ACLNotAllowed
    ELSE Ok

\* the choice is compared with the 1-based position of the slot
TallySlotOffByOne(count, choice, i) ==
    FHEadd(count, FHEselect(FHEeq(choice, i), asEuint32(1), asEuint32(0)))

\* only the slot that matches is touched
TallySlotOnlyMatching(count, choice, i) ==
    IF Decrypt(choice) = i - 1 THEN FHEadd(count, asEuint32(1)) ELSE count

\* one pass of the loop body for slot i (0-based option index i - 1)
TallySlot(count, choice, i) ==
    LET one == asEuint32(1)
        zero == asEuint32(0)
        matches == FHEeq(choice, i - 1)
        increment == FHEselect(matches, one, zero)
    IN  FHEadd(count, increment)

\* the loop stops one slot early
TallySkipsLast(counts, choice) ==
    [i \in 1..Len(counts) |->
        IF i = Len(counts) THEN counts[i] ELSE TallySlot(counts[i], choice, i)]

\* an index past the last option is counted for the last option
TallyClampsToLast(counts, choice) ==
    [i \in 1..Len(counts) |->
        IF i = Len(counts) /\ Decrypt(choice) >= Len(counts)
        THEN FHEadd(counts[i], asEuint32(1))
        ELSE TallySlot(counts[i], choice, i)]

Tally(counts, choice) == [i \in 1..Len(counts) |-> TallySlot(counts[i], choice, i)]

\* the record is kept per address, not per prediction and address
RecordVoteOnEveryPrediction(predictionId, sender) ==
    hasVoted \cup { <<id, sender>> : id \in 0..(Len(predictions) - 1) }

\* the vote is counted but the voter is not recorded
RecordVoteForgotten(predictionId, sender) == hasVoted

\* _hasVoted[predictionId][msg.sender] = true
RecordVote(predictionId, sender) == hasVoted \cup {<<predictionId, sender>>}

submitChoice(sender, predictionId, k, proofOk) ==
    LET err1 == SubmitError(predictionId, sender)
        err == IF err1 # Ok THEN err1
               ELSE FHEError(Pred(predictionId).encryptedCounts, proofOk)
        choice == fromExternal(sender, k)
        counts == Tally(Pred(predictionId).encryptedCounts, choice)
    IN  IF err # Ok
        THEN Revert(Call("submitChoice", sender, predictionId, "", <<>>, k, proofOk, err, 0))
        ELSE /\ predictions' = [predictions EXCEPT ![predictionId + 1].encryptedCounts = counts]
             /\ allowed' = AllowThis(Range(counts))
             /\ hasVoted' = RecordVote(predictionId, sender)
             /\ events' = Emit(
                    [type |-> "VoteSubmitted", predictionId |-> predictionId,
                     who |-> sender, name |-> "", options |-> <<>>, handle |-> choice])
             /\ last' = Call("submitChoice", sender, predictionId, "", <<>>, k, proofOk, Ok, 0)
             /\ UNCHANGED publicDec

\* -------------------------------------------------------- closePrediction
\* a closed prediction can be closed again
CloseErrorNoClosedCheck(predictionId) ==
    IF ~(predictionId < Len(predictions)) THEN InvalidPrediction
    ELSE IF \E i \in 1..Len(Pred(predictionId).encryptedCounts) :
                Pred(predictionId).encryptedCounts[i] \notin allowed THEN ACLNotAllowed
    ELSE Ok

CloseError(predictionId) ==
    IF ~(predictionId < Len(predictions)) THEN InvalidPrediction
    ELSE IF ~Pred(predictionId).isOpen THEN AlreadyClosed
    ELSE IF \E i \in 1..Len(Pred(predictionId).encryptedCounts) :
                Pred(predictionId).encryptedCounts[i] \notin allowed THEN ACLNotAllowed
    ELSE Ok

\* the last counter is not flagged
PubliclyDecryptableButLast(counts) ==
    publicDec \cup Range(SubSeq(counts, 1, Len(counts) - 1))

\* the flags set before are lost
PubliclyDecryptableOverwritten(counts) == Range(counts)

\* FHE.makePubliclyDecryptable adds a flag to the handle and returns the handle
MakePubliclyDecryptable(counts) == publicDec \cup Range(counts)

\* only an address that voted on the prediction may close it
closePredictionVotersOnly(sender, predictionId) ==
    LET err == IF CloseError(predictionId) = Ok /\ <<predictionId, sender>> \notin hasVoted
               THEN "Not allowed" ELSE CloseError(predictionId)
    IN  IF err # Ok
        THEN Revert(Call("closePrediction", sender, predictionId, "", <<>>, 0, TRUE, err, 0))
        ELSE /\ predictions' = [predictions EXCEPT ![predictionId + 1].isOpen = FALSE]
             /\ publicDec' = MakePubliclyDecryptable(Pred(predictionId).encryptedCounts)
             /\ events' = Emit(
                    [type |-> "PredictionClosed", predictionId |-> predictionId,
                     who |-> 0, name |-> "", options |-> <<>>, handle |-> <<>>])
             /\ last' = Call("closePrediction", sender, predictionId, "", <<>>, 0, TRUE, Ok, 0)
             /\ UNCHANGED <<hasVoted, allowed>>

\* closing stamps the prediction with a new time
closePredictionStampsTime(sender, predictionId) ==
    LET err == CloseError(predictionId)
    IN  IF err # Ok
        THEN Revert(Call("closePrediction", sender, predictionId, "", <<>>, 0, TRUE, err, 0))
        ELSE /\ predictions' = [predictions EXCEPT ![predictionId + 1].isOpen = FALSE,
                                                   ![predictionId + 1].createdAt = @ + 1]
             /\ publicDec' = MakePubliclyDecryptable(Pred(predictionId).encryptedCounts)
             /\ events' = Emit(
                    [type |-> "PredictionClosed", predictionId |-> predictionId,
                     who |-> 0, name |-> "", options |-> <<>>, handle |-> <<>>])
             /\ last' = Call("closePrediction", sender, predictionId, "", <<>>, 0, TRUE, Ok, 0)
             /\ UNCHANGED <<hasVoted, allowed>>

closePrediction(sender, predictionId) ==
    LET err == CloseError(predictionId)
    IN  IF err # Ok
        THEN Revert(Call("closePrediction", sender, predictionId, "", <<>>, 0, TRUE, err, 0))
        ELSE /\ predictions' = [predictions EXCEPT ![predictionId + 1].isOpen = FALSE]
             /\ publicDec' = MakePubliclyDecryptable(Pred(predictionId).encryptedCounts)
             /\ events' = Emit(
                    [type |-> "PredictionClosed", predictionId |-> predictionId,
                     who |-> 0, name |-> "", options |-> <<>>, handle |-> <<>>])
             /\ last' = Call("closePrediction", sender, predictionId, "", <<>>, 0, TRUE, Ok, 0)
             /\ UNCHANGED <<hasVoted, allowed>>

\* ---------------------------------------------------------------- queries
\* the range check reports the wrong reason
ViewErrorWrongReason(predictionId) ==
    IF ~(predictionId < Len(predictions)) THEN AlreadyClosed ELSE Ok

ViewError(predictionId) ==
    IF ~(predictionId < Len(predictions)) THEN InvalidPrediction ELSE Ok

\* getEncryptedCounts makes the counters it returns publicly decryptable
QueryRevealsCounters(op, sender, predictionId, user, err, ret) ==
    /\ last' = Call(op, sender, predictionId, "", <<>>, user, TRUE, err, IF err = Ok THEN ret ELSE 0)
    /\ publicDec' = IF err = Ok /\ op = "getEncryptedCounts"
                    THEN publicDec \cup Range(ret) ELSE publicDec
    /\ UNCHANGED <<predictions, hasVoted, allowed, events>>

\* a view function: it returns a value and writes nothing
Query(op, sender, predictionId, user, err, ret) ==
    /\ last' = Call(op, sender, predictionId, "", <<>>, user, TRUE, err, IF err = Ok THEN ret ELSE 0)
    /\ UNCHANGED <<predictions, hasVoted, allowed, publicDec, events>>

getPrediction(sender, predictionId) ==
    LET err == ViewError(predictionId)
    IN  Query("getPrediction", sender, predictionId, 0, err,
              IF err = Ok
              THEN <<Pred(predictionId).name, Pred(predictionId).options,
                     Pred(predictionId).encryptedCounts, Pred(predictionId).isOpen,
                     Pred(predictionId).createdAt>>
              ELSE 0)

getEncryptedCounts(sender, predictionId) ==
    LET err == ViewError(predictionId)
    IN  Query("getEncryptedCounts", sender, predictionId, 0, err,
              IF err = Ok THEN Pred(predictionId).encryptedCounts ELSE 0)

hasAddressVoted(sender, predictionId, user) ==
    Query("hasAddressVoted", sender, predictionId, user, ViewError(predictionId),
          <<predictionId, user>> \in hasVoted)

getPredictionCount(sender) ==
    Query("getPredictionCount", sender, 0, 0, Ok, Len(predictions))

\* ------------------------------------------------------------ transitions
\* no call is being answered
Idle == last = NoCall

\* the caller receives the outcome of its call
Return ==
    /\ ~Idle
    /\ last' = NoCall
    /\ UNCHANGED <<predictions, hasVoted, allowed, publicDec, events>>
    /\ UNCHANGED appVars

\* in: the sets the arguments of the calls are drawn from
NextOf(in) ==
    \/ \E sender \in in.creators, name \in in.names, options \in in.lists, ts \in in.times :
         /\ Idle
         /\ Len(predictions) < in.maxPredictions \/ CreateError(name, options) # Ok
         /\ createPrediction(sender, name, options, ts)
         /\ UNCHANGED appVars
    \/ \E sender \in in.voters, predictionId \in in.ids, k \in in.choices, proofOk \in in.proofs :
         Idle /\ submitChoice(sender, predictionId, k, proofOk) /\ UNCHANGED appVars
    \/ \E sender \in in.closers, predictionId \in in.ids :
         Idle /\ closePrediction(sender, predictionId) /\ UNCHANGED appVars
    \/ \E predictionId \in in.ids : Idle /\ getPrediction(1, predictionId) /\ UNCHANGED appVars
    \/ \E predictionId \in in.ids : Idle /\ getEncryptedCounts(1, predictionId) /\ UNCHANGED appVars
    \/ \E predictionId \in in.ids, user \in in.voters :
         Idle /\ hasAddressVoted(1, predictionId, user) /\ UNCHANGED appVars
    \/ Idle /\ getPredictionCount(1) /\ UNCHANGED appVars
    \/ Return

RegistryInputs ==
    [creators |-> {1}, names |-> {"", "X"}, lists |-> OptionLists, times |-> {1},
     voters |-> {1}, ids |-> 0..MaxPredictions, choices |-> {0}, proofs |-> {TRUE},
     closers |-> {1}, maxPredictions |-> MaxPredictions]

VoteInputs ==
    [creators |-> {1}, names |-> {"X"}, lists |-> ValidLists, times |-> {1},
     voters |-> 1..MaxAddress, ids |-> 0..1, choices |-> 0..MaxChoice, proofs |-> BOOLEAN,
     closers |-> 1..MaxAddress, maxPredictions |-> 1]

TallyInputs ==
    [creators |-> {1}, names |-> {"X"}, lists |-> {OptionList(MinOptions, 0)}, times |-> {1},
     voters |-> 1..TallyAddress, ids |-> 0..1, choices |-> 0..TallyChoice, proofs |-> {TRUE},
     closers |-> {1}, maxPredictions |-> 1]

\* two predictions of two options, two addresses that vote and close
PairInputs ==
    [creators |-> {1}, names |-> {"", "X"}, lists |-> {OptionList(MinOptions, 0), OptionList(MinOptions, MinOptions)},
     times |-> {1}, voters |-> 1..PairAddress, ids |-> 0..MaxPredictions, choices |-> 0..PairChoice,
     proofs |-> BOOLEAN, closers |-> 1..PairAddress, maxPredictions |-> MaxPredictions]

Next == NextOf(RegistryInputs)
NextPair == NextOf(PairInputs)
NextVote == NextOf(VoteInputs)
NextTally == NextOf(TallyInputs)

Spec == Init /\ [][Next]_vars
SpecVote == Init /\ [][NextVote]_vars
SpecTally == Init /\ [][NextTally]_vars
SpecPair == Init /\ [][NextPair]_vars

\* =============================================================== frontend
\* components/PredictionApp.tsx.  The text of an input field is a sequence of
\* characters; Str gives the string that goes into a transaction.
FormMinOptions == 2
FormMaxOptions == 4

Space == " "

RECURSIVE TrimStart(_)
TrimStart(text) ==
    IF text # <<>> /\ Head(text) = Space THEN TrimStart(Tail(text)) ELSE text

RECURSIVE TrimEnd(_)
TrimEnd(text) ==
    IF text # <<>> /\ text[Len(text)] = Space
    THEN TrimEnd(SubSeq(text, 1, Len(text) - 1)) ELSE text

\* String.prototype.trim
Trim(text) == TrimEnd(TrimStart(text))

\* the string of a text, as it is encoded into a transaction
RECURSIVE Str(_)
Str(text) == IF text = <<>> THEN "" ELSE Head(text) \o Str(Tail(text))

StrAll(texts) == [i \in 1..Len(texts) |-> Str(texts[i])]

\* .filter(Boolean) on strings: the empty string is dropped
FilterBoolean(texts) == SelectSeq(texts, LAMBDA t : t # <<>>)

\* the messages shown in the error banner
NameMissing == "Please provide a prediction name."
OptionsMissing == "Provide between 2 and 4 options."
NoSignerCreate == "Connect your wallet to launch a prediction."
CreateFailed == "Transaction failed while creating the prediction."

\* onChange of the name field
setFormTitle(text) ==
    /\ formTitle' = text
    /\ UNCHANGED <<formOptions, pendingAction, errorMessage, appPredictions, running>>

\* onChange of the option field idx
setFormOptions(idx, text) ==
    /\ idx \in 1..Len(formOptions)
    /\ formOptions' = [formOptions EXCEPT ![idx] = text]
    /\ UNCHANGED <<formTitle, pendingAction, errorMessage, appPredictions, running>>

handleAddOption ==
    /\ ~(Len(formOptions) >= FormMaxOptions)
    /\ formOptions' = Append(formOptions, <<>>)
    /\ UNCHANGED <<formTitle, pendingAction, errorMessage, appPredictions, running>>

handleRemoveOption(index) ==
    /\ index \in 1..Len(formOptions)
    /\ ~(Len(formOptions) <= FormMinOptions)
    /\ formOptions' = [i \in 1..(Len(formOptions) - 1) |->
                          IF i < index THEN formOptions[i] ELSE formOptions[i + 1]]
    /\ UNCHANGED <<formTitle, pendingAction, errorMessage, appPredictions, running>>

resetForm ==
    /\ formTitle' = <<>>
    /\ formOptions' = <<<<>>, <<>>>>

\* the empty fields are dropped before the others are trimmed
CleanedOptionsFilterFirst(options) ==
    LET kept == FilterBoolean(options)
    IN  [i \in 1..Len(kept) |-> Trim(kept[i])]

\* the options handleCreatePrediction sends: trimmed, the empty ones dropped
CleanedOptions(options) == FilterBoolean([i \in 1..Len(options) |-> Trim(options[i])])

\* the values of pendingAction
CreateTag == "create"
VoteTag(predictionId) == "vote-" \o ToString(predictionId)
CloseTag(predictionId) == "close-" \o ToString(predictionId)
DecryptTag(predictionId) == "decrypt-" \o ToString(predictionId)

\* a handler that is waiting for its transaction or for the relayer
Running(tag, id, name, options, choice, handles) ==
    [tag |-> tag, id |-> id, name |-> name, options |-> options, choice |-> choice,
     handles |-> handles]

\* submit of the form, up to the point where the transaction is handed to the
\* wallet; signer: useEthersSigner has a signer
handleCreatePrediction(signer) ==
    LET trimmedTitle == Trim(formTitle)
        cleanedOptions == CleanedOptions(formOptions)
    IN  IF trimmedTitle = <<>>
        THEN /\ errorMessage' = NameMissing
             /\ UNCHANGED <<formTitle, formOptions, pendingAction, appPredictions, running>>
        ELSE IF Len(cleanedOptions) < FormMinOptions \/ Len(cleanedOptions) > FormMaxOptions
        THEN /\ errorMessage' = OptionsMissing
             /\ UNCHANGED <<formTitle, formOptions, pendingAction, appPredictions, running>>
        ELSE IF ~signer
        THEN /\ errorMessage' = NoSignerCreate
             /\ pendingAction' = Null
             /\ UNCHANGED <<formTitle, formOptions, appPredictions, running>>
        ELSE /\ errorMessage' = Null
             /\ pendingAction' = CreateTag
             /\ running' = Append(running,
                   Running(CreateTag, 0, trimmedTitle, cleanedOptions, 0, <<>>))
             /\ UNCHANGED <<formTitle, formOptions, appPredictions>>

\* the handler r-th in line goes on after its await
Without(r) == [i \in 1..(Len(running) - 1) |-> IF i < r THEN running[i] ELSE running[i + 1]]

\* the transaction of a waiting handleCreatePrediction is mined (or the wallet
\* turns it down: sent = FALSE), then the catch and finally blocks run
finishCreatePrediction(r, account, ts, sent) ==
    /\ r \in 1..Len(running)
    /\ running[r].tag = CreateTag
    /\ Idle
    /\ IF sent
       THEN createPrediction(account, Str(running[r].name), StrAll(running[r].options), ts)
       ELSE UNCHANGED <<predictions, hasVoted, allowed, publicDec, events, last>>
    /\ IF sent /\ CreateError(Str(running[r].name), StrAll(running[r].options)) = Ok
       THEN resetForm /\ UNCHANGED errorMessage
       ELSE errorMessage' = CreateFailed /\ UNCHANGED <<formTitle, formOptions>>
    /\ pendingAction' = Null
    /\ running' = Without(r)
    /\ UNCHANGED appPredictions

\* loadPredictions: the effect that runs after a refresh reads the chain
loadPredictions(address) ==
    /\ appPredictions' =
          [i \in 1..Len(predictions) |->
              [id |-> i - 1,
               name |-> predictions[i].name,
               options |-> predictions[i].options,
               encryptedCounts |-> predictions[i].encryptedCounts,
               isOpen |-> predictions[i].isOpen,
               createdAt |-> predictions[i].createdAt,
               hasVoted |-> <<i - 1, address>> \in hasVoted,
               decryptedCounts |-> <<>>]]
    /\ errorMessage' = Null
    /\ UNCHANGED <<formTitle, formOptions, pendingAction, running>>
    /\ UNCHANGED <<predictions, hasVoted, allowed, publicDec, events, last>>

ContractUnchanged == UNCHANGED <<predictions, hasVoted, allowed, publicDec, events, last>>

\* the form and the create button
FormActions(in) ==
    \/ \E text \in in.titles : setFormTitle(text) /\ ContractUnchanged
    \/ \E idx \in 1..FormMaxOptions, text \in in.labels :
         setFormOptions(idx, text) /\ ContractUnchanged
    \/ handleAddOption /\ ContractUnchanged
    \/ \E index \in 1..FormMaxOptions : handleRemoveOption(index) /\ ContractUnchanged
    \/ \E signer \in in.signers :
         /\ pendingAction # CreateTag
         /\ Len(running) < in.maxRunning
         /\ Len(predictions) + Len(running) < in.maxPredictions
              \/ Trim(formTitle) = <<>>
              \/ Len(CleanedOptions(formOptions)) \notin FormMinOptions..FormMaxOptions
              \/ ~signer
         /\ handleCreatePrediction(signer)
         /\ ContractUnchanged
    \/ \E r \in 1..in.maxRunning, ts \in in.times, sent \in BOOLEAN :
         finishCreatePrediction(r, in.account, ts, sent)
    \/ loadPredictions(in.account)

NoSignerVote == "Connect your wallet to vote."
VoteFailed == "Could not submit your encrypted vote."
NoSignerClose == "Connect your wallet to reveal a prediction."
CloseFailed == "Unable to reveal this prediction."
NoInstance == "Encryption service is still initializing."
DecryptFailed == "Public decryption failed. Try again shortly."

\* the card of a prediction in the list the component last loaded
Card(predictionId) == appPredictions[predictionId + 1]
HasCard(predictionId) == predictionId < Len(appPredictions)

\* click on an option card, up to the point where the handler waits
handleVote(predictionId, optionIndex, signer) ==
    IF ~signer
    THEN /\ errorMessage' = NoSignerVote
         /\ pendingAction' = Null
         /\ UNCHANGED <<formTitle, formOptions, appPredictions, running>>
    ELSE /\ errorMessage' = Null
         /\ pendingAction' = VoteTag(predictionId)
         /\ running' = Append(running,
               Running(VoteTag(predictionId), predictionId, <<>>, <<>>, optionIndex, <<>>))
         /\ UNCHANGED <<formTitle, formOptions, appPredictions>>

\* the vote of a waiting handleVote is mined (or turned down by the wallet)
finishVote(r, account, sent) ==
    /\ r \in 1..Len(running)
    /\ running[r].tag = VoteTag(running[r].id)
    /\ Idle
    /\ IF sent
       THEN submitChoice(account, running[r].id, running[r].choice, TRUE)
       ELSE UNCHANGED <<predictions, hasVoted, allowed, publicDec, events, last>>
    /\ IF /\ sent
          /\ SubmitError(running[r].id, account) = Ok
          /\ FHEError(Pred(running[r].id).encryptedCounts, TRUE) = Ok
       THEN UNCHANGED errorMessage
       ELSE errorMessage' = VoteFailed
    /\ pendingAction' = Null
    /\ running' = Without(r)
    /\ UNCHANGED <<formTitle, formOptions, appPredictions>>

\* click on "Close & make public"
handleClosePrediction(predictionId, signer) ==
    IF ~signer
    THEN /\ errorMessage' = NoSignerClose
         /\ pendingAction' = Null
         /\ UNCHANGED <<formTitle, formOptions, appPredictions, running>>
    ELSE /\ errorMessage' = Null
         /\ pendingAction' = CloseTag(predictionId)
         /\ running' = Append(running,
               Running(CloseTag(predictionId), predictionId, <<>>, <<>>, 0, <<>>))
         /\ UNCHANGED <<formTitle, formOptions, appPredictions>>

finishClosePrediction(r, account, sent) ==
    /\ r \in 1..Len(running)
    /\ running[r].tag = CloseTag(running[r].id)
    /\ Idle
    /\ IF sent
       THEN closePrediction(account, running[r].id)
       ELSE UNCHANGED <<predictions, hasVoted, allowed, publicDec, events, last>>
    /\ IF sent /\ CloseError(running[r].id) = Ok
       THEN UNCHANGED errorMessage
       ELSE errorMessage' = CloseFailed
    /\ pendingAction' = Null
    /\ running' = Without(r)
    /\ UNCHANGED <<formTitle, formOptions, appPredictions>>

\* click on "Decrypt totals"; the relayer is asked for the handles of the card
handleDecrypt(predictionId, instance) ==
    IF ~instance
    THEN /\ errorMessage' = NoInstance
         /\ UNCHANGED <<formTitle, formOptions, pendingAction, appPredictions, running>>
    ELSE /\ errorMessage' = Null
         /\ pendingAction' = DecryptTag(predictionId)
         /\ running' = Append(running,
               Running(DecryptTag(predictionId), predictionId, <<>>, <<>>, 0,
                       Card(predictionId).encryptedCounts))
         /\ UNCHANGED <<formTitle, formOptions, appPredictions>>

\* instance.publicDecrypt answers: with the cleartexts when every handle is
\* publicly decryptable, with an error otherwise
finishDecrypt(r) ==
    /\ r \in 1..Len(running)
    /\ running[r].tag = DecryptTag(running[r].id)
    /\ IF Range(running[r].handles) \subseteq publicDec
       THEN /\ appPredictions' =
                  [i \in 1..Len(appPredictions) |->
                      IF appPredictions[i].id = running[r].id
                      THEN [appPredictions[i] EXCEPT
                               !.decryptedCounts = DecryptAll(running[r].handles)]
                      ELSE appPredictions[i]]
            /\ UNCHANGED errorMessage
       ELSE /\ errorMessage' = DecryptFailed
            /\ UNCHANGED appPredictions
    /\ pendingAction' = Null
    /\ running' = Without(r)
    /\ UNCHANGED <<formTitle, formOptions>>
    /\ ContractUnchanged

\* the buttons of the cards, enabled as the render enables them
CardActions(in) ==
    \/ \E predictionId \in in.ids, optionIndex \in in.choices, signer \in in.signers :
         /\ HasCard(predictionId)
         /\ optionIndex < Len(Card(predictionId).options)
         /\ Card(predictionId).isOpen /\ ~Card(predictionId).hasVoted
         /\ pendingAction # VoteTag(predictionId)
         /\ Len(running) < in.maxRunning \/ ~signer
         /\ handleVote(predictionId, optionIndex, signer)
         /\ ContractUnchanged
    \/ \E r \in 1..in.maxRunning, sent \in BOOLEAN : finishVote(r, in.account, sent)
    \/ \E predictionId \in in.ids, signer \in in.signers :
         /\ HasCard(predictionId)
         /\ Card(predictionId).isOpen
         /\ pendingAction # CloseTag(predictionId)
         /\ Len(running) < in.maxRunning \/ ~signer
         /\ handleClosePrediction(predictionId, signer)
         /\ ContractUnchanged
    \/ \E r \in 1..in.maxRunning, sent \in BOOLEAN : finishClosePrediction(r, in.account, sent)
    \/ \E predictionId \in in.ids, instance \in in.instances :
         /\ HasCard(predictionId)
         /\ ~Card(predictionId).isOpen
         /\ pendingAction # DecryptTag(predictionId)
         /\ Len(running) < in.maxRunning \/ ~instance
         /\ handleDecrypt(predictionId, instance)
         /\ ContractUnchanged
    \/ \E r \in 1..in.maxRunning : finishDecrypt(r)

\* ------------------------------------------------- frontend transitions
MaxRunning == 2
AppPredictions == 1

\* what is typed into the form: nothing, a space, a word with a space around
FormInputs ==
    [titles |-> {<<>>, <<Space>>, <<"X", Space>>},
     labels |-> {<<>>, <<Space>>, <<Space, "A">>}, signers |-> BOOLEAN, instances |-> {},
     times |-> {1}, account |-> 1, ids |-> {}, choices |-> {},
     maxRunning |-> 1, maxPredictions |-> AppPredictions]

AppInputs ==
    [titles |-> {<<"X">>}, labels |-> {<<"A">>}, signers |-> BOOLEAN, instances |-> BOOLEAN,
     times |-> {1}, account |-> 1, ids |-> 0..(AppPredictions - 1), choices |-> {0},
     maxRunning |-> MaxRunning, maxPredictions |-> AppPredictions]

NextForm == FormActions(FormInputs) \/ Return
NextApp == FormActions(AppInputs) \/ CardActions(AppInputs) \/ Return

SpecForm == Init /\ [][NextForm]_vars
SpecApp == Init /\ [][NextApp]_vars

\* =============================================================== properties
\* what the relayer returns for the counters of a prediction
Counts(predictionId) == DecryptAll(Pred(predictionId).encryptedCounts)
CountsAfter(predictionId) == DecryptAll(predictions'[predictionId + 1].encryptedCounts)
NumOptions(predictionId) == Len(Pred(predictionId).options)
Voted(predictionId, who) == <<predictionId, who>> \in hasVoted
StorageUnchanged == UNCHANGED <<predictions, hasVoted, allowed, publicDec, events>>

\* the step is a call of op that reverted or returned (its record is in last')
Called(op) == last'.op = op

\* C1: on an open prediction, a vote with a valid proof for option k < n by an
\* address that has not voted succeeds; the decrypted counter k grows by one
\* and every other decrypted counter keeps its value.
C1_VoteIncrementsChosen ==
    [][(/\ Called("submitChoice")
        /\ Exists(last'.id)
        /\ Pred(last'.id).isOpen
        /\ ~Voted(last'.id, last'.sender)
        /\ last'.proofOk
        /\ last'.choice < NumOptions(last'.id))
       => /\ last'.err = Ok
          /\ Len(CountsAfter(last'.id)) = NumOptions(last'.id)
          /\ \A j \in 1..NumOptions(last'.id) :
                CountsAfter(last'.id)[j] =
                    Counts(last'.id)[j] + (IF j - 1 = last'.choice THEN 1 ELSE 0)]_vars

\* a second vote was counted for the last option of a four-option prediction
C1_Witness ==
    /\ last.op = "submitChoice" /\ last.err = Ok /\ last.choice = 3
    /\ Exists(last.id) /\ NumOptions(last.id) = 4
    /\ Cardinality(hasVoted) = 2
    /\ Counts(last.id)[4] >= 1

\* C2 as stated: every vote of an address that already has a vote record on the
\* prediction fails with AlreadyVoted and changes no counter.
C2_LaterVotesFailAlreadyVoted ==
    [][(Called("submitChoice") /\ Exists(last'.id) /\ Voted(last'.id, last'.sender))
       => (last'.err = AlreadyVoted /\ UNCHANGED <<predictions, hasVoted>>)]_vars

\* C2, amended: at most one vote of an address on a prediction succeeds (a vote
\* succeeds only without a vote record and leaves one); every later vote of the
\* address fails, with AlreadyVoted while the prediction is open and with
\* BallotClosed once it is closed, and changes no counter and no vote record.
C2_AtMostOneVotePerAddress ==
    [][Called("submitChoice") /\ Exists(last'.id)
       => /\ last'.err = Ok => (~Voted(last'.id, last'.sender)
                                 /\ hasVoted' = hasVoted \cup {<<last'.id, last'.sender>>})
          /\ Voted(last'.id, last'.sender)
                => /\ last'.err = (IF Pred(last'.id).isOpen THEN AlreadyVoted ELSE BallotClosed)
                   /\ UNCHANGED <<predictions, hasVoted>>]_vars

\* a vote of an address with a vote record was rejected on an open prediction
C2_Witness ==
    /\ last.op = "submitChoice" /\ last.err = AlreadyVoted /\ last.proofOk
    /\ Voted(last.id, last.sender) /\ Pred(last.id).isOpen

\* C3: no counter handle held by an open prediction is flagged publicly
\* decryptable.
C3_OpenCountersNotPublic ==
    \A id \in 0..(Len(predictions) - 1) :
        Pred(id).isOpen => Range(Pred(id).encryptedCounts) \cap publicDec = {}

\* C4: a closed prediction stays closed and a flagged handle stays flagged,
\* whatever is called.
C4_CloseIsOneWay ==
    [][/\ Len(predictions') >= Len(predictions)
       /\ \A id \in 0..(Len(predictions) - 1) :
            ~Pred(id).isOpen => ~predictions'[id + 1].isOpen
       /\ publicDec \subseteq publicDec']_vars

\* two predictions are closed, the first still flagged after the second close
C4_Witness ==
    /\ Len(predictions) = 2
    /\ ~Pred(0).isOpen /\ ~Pred(1).isOpen
    /\ Voted(0, 1) /\ ~Voted(1, 1)
    /\ last.op = "submitChoice" /\ last.err = BallotClosed
    /\ Range(Pred(0).encryptedCounts) \subseteq publicDec

\* C5: close fails with InvalidPrediction on an unknown id and with
\* AlreadyClosed on a closed prediction, changing nothing; otherwise it sets
\* isOpen to false and flags every counter of the prediction.
C5_CloseOutcome ==
    [][Called("closePrediction")
       => IF ~Exists(last'.id) THEN last'.err = InvalidPrediction /\ StorageUnchanged
          ELSE IF ~Pred(last'.id).isOpen THEN last'.err = AlreadyClosed /\ StorageUnchanged
          ELSE /\ last'.err = Ok
               /\ ~predictions'[last'.id + 1].isOpen
               /\ Range(predictions'[last'.id + 1].encryptedCounts) \subseteq publicDec'
               /\ predictions'[last'.id + 1].encryptedCounts = Pred(last'.id).encryptedCounts]_vars

\* a second close of a prediction was rejected
C5_Witness ==
    /\ last.op = "closePrediction" /\ last.err = AlreadyClosed
    /\ Exists(last.id) /\ ~Pred(last.id).isOpen
    /\ Voted(last.id, 1)

\* C6: submitChoice checks the id, then that the prediction is open, then the
\* vote record; on a closed prediction it fails with BallotClosed with or
\* without a vote record and changes neither counters nor vote records.
C6_SubmitCheckOrder ==
    [][Called("submitChoice")
       => IF ~Exists(last'.id) THEN last'.err = InvalidPrediction /\ StorageUnchanged
          ELSE IF ~Pred(last'.id).isOpen THEN last'.err = BallotClosed /\ StorageUnchanged
          ELSE IF Voted(last'.id, last'.sender) THEN last'.err = AlreadyVoted /\ StorageUnchanged
          ELSE last'.err \notin {InvalidPrediction, BallotClosed, AlreadyVoted}]_vars

\* a voter's second vote was rejected as BallotClosed after the close
C6_Witness ==
    /\ last.op = "submitChoice" /\ last.err = BallotClosed
    /\ Voted(last.id, last.sender) /\ ~Pred(last.id).isOpen

\* C7: create fails with InvalidInput, changing nothing, exactly when the name
\* is empty, the number of options is below 2 or above 4, or a label is empty.
BadCreateInput(name, options) ==
    \/ name = ""
    \/ Len(options) < 2
    \/ Len(options) > 4
    \/ \E i \in 1..Len(options) : options[i] = ""

C7_CreateValidation ==
    [][Called("createPrediction")
       => IF BadCreateInput(last'.name, last'.options)
          THEN last'.err \in InvalidInput /\ StorageUnchanged
          ELSE last'.err = Ok]_vars

\* a creation with an empty last label was rejected after one had succeeded
C7_Witness ==
    /\ last.op = "createPrediction" /\ last.err = EmptyOption
    /\ Len(last.options) = 3 /\ last.options[1] # "" /\ last.options[3] = ""
    /\ Len(predictions) = 1

\* C8: a successful create returns the number of predictions there were, adds
\* one prediction and changes no other; the new one is open, has the given name
\* and options and one counter per option, each decrypting to 0.
C8_CreateEffect ==
    [][(Called("createPrediction") /\ last'.err = Ok)
       => /\ last'.ret = Len(predictions)
          /\ Len(predictions') = Len(predictions) + 1
          /\ SubSeq(predictions', 1, Len(predictions)) = predictions
          /\ predictions'[last'.ret + 1].isOpen
          /\ predictions'[last'.ret + 1].name = last'.name
          /\ predictions'[last'.ret + 1].options = last'.options
          /\ CountsAfter(last'.ret) = [i \in 1..Len(last'.options) |-> 0]]_vars

\* the second prediction was created with id 1 after a vote on the first
C8_Witness ==
    /\ last.op = "createPrediction" /\ last.err = Ok /\ last.ret = 1
    /\ Len(predictions) = 2 /\ Voted(0, 1)
    /\ Counts(1) = <<0, 0, 0>>

\* C9: every prediction has as many counters as options, between 2 and 4 of
\* them, and no empty label.
C9_PredictionShape ==
    \A id \in 0..(Len(predictions) - 1) :
        /\ Len(Pred(id).encryptedCounts) = Len(Pred(id).options)
        /\ Len(Pred(id).options) >= 2
        /\ Len(Pred(id).options) <= 4
        /\ \A i \in 1..Len(Pred(id).options) : Pred(id).options[i] # ""

\* a four-option prediction was voted on and closed
C9_Witness ==
    /\ Exists(0) /\ NumOptions(0) = 4 /\ Voted(0, 1) /\ ~Pred(0).isOpen
    /\ Len(Pred(0).encryptedCounts) = 4

\* the addresses whose recorded vote on the prediction was for option index k
VotersFor(predictionId, k) ==
    { events[e].who : e \in { e \in 1..Len(events) :
        /\ events[e].type = "VoteSubmitted"
        /\ events[e].predictionId = predictionId
        /\ Decrypt(events[e].handle) = k } }

\* every recorded vote on the prediction was for one of its options
AllVotesValid(predictionId) ==
    \A e \in 1..Len(events) :
        (events[e].type = "VoteSubmitted" /\ events[e].predictionId = predictionId)
        => Decrypt(events[e].handle) < NumOptions(predictionId)

\* C10: once a prediction whose votes were all for valid option indices is
\* closed, counter i decrypts to the number of addresses that voted for i.
C10_TallyCountsVoters ==
    \A id \in 0..(Len(predictions) - 1) :
        (~Pred(id).isOpen /\ AllVotesValid(id))
        => \A i \in 1..NumOptions(id) : Counts(id)[i] = Cardinality(VotersFor(id, i - 1))

\* two votes for option 1 and one for option 0, closed: the counts are [1, 2]
C10_Witness ==
    /\ Exists(0) /\ ~Pred(0).isOpen
    /\ Cardinality(VotersFor(0, 1)) = 2 /\ Cardinality(VotersFor(0, 0)) = 1
    /\ Counts(0) = <<1, 2>>

\* what an observer of the chain sees of a handle: the operations that made it
\* and the address behind an input, not the plaintext of the input
RECURSIVE Shape(_)
Shape(h) ==
    CASE h[1] = "triv" -> h
      [] h[1] = "in"   -> <<"in", h[2]>>
      [] h[1] = "eq"   -> <<"eq", Shape(h[2]), h[3]>>
      [] h[1] = "sel"  -> <<"sel", Shape(h[2]), Shape(h[3]), Shape(h[4])>>
      [] h[1] = "add"  -> <<"add", Shape(h[2]), Shape(h[3])>>

\* the number of eq, select and add operations behind a handle
RECURSIVE Ops(_)
Ops(h) ==
    CASE h[1] = "triv" -> 0
      [] h[1] = "in"   -> 0
      [] h[1] = "eq"   -> 1 + Ops(h[2])
      [] h[1] = "sel"  -> 1 + Ops(h[2]) + Ops(h[3]) + Ops(h[4])
      [] h[1] = "add"  -> 1 + Ops(h[2]) + Ops(h[3])

ShapeAll(handles) == [i \in 1..Len(handles) |-> Shape(handles[i])]

\* C11: a successful vote replaces every counter handle once, with one eq, one
\* select and one add per slot and a grant for each new handle, whatever the
\* index; the same call with any other plaintext would leave counters of the
\* same shape, and the ledger and the event (which carries the handle of the
\* ciphertext, not an index) do not depend on the plaintext.
C11_VoteShapeIndependentOfChoice ==
    [][(Called("submitChoice") /\ last'.err = Ok)
       => LET old == Pred(last'.id).encryptedCounts
              new == predictions'[last'.id + 1].encryptedCounts
          IN  /\ Len(new) = Len(old)
              /\ \A i \in 1..Len(old) :
                    /\ new[i] # old[i]
                    /\ new[i][1] = "add" /\ new[i][2] = old[i]
                    /\ Ops(new[i]) = Ops(old[i]) + 3
                    /\ new[i] \in allowed'
              /\ \A k2 \in 0..MaxChoice :
                    ShapeAll(Tally(old, fromExternal(last'.sender, k2))) = ShapeAll(new)
              /\ hasVoted' = hasVoted \cup {<<last'.id, last'.sender>>}
              /\ Len(events') = Len(events) + 1
              /\ LET e == events'[Len(events')]
                 IN  /\ e.type = "VoteSubmitted"
                     /\ e.predictionId = last'.id
                     /\ e.who = last'.sender
                     /\ Shape(e.handle) = <<"in", last'.sender>>]_vars

\* the second voter chose another option than the first on a 3-option prediction
C11_Witness ==
    /\ last.op = "submitChoice" /\ last.err = Ok /\ last.choice = 2
    /\ NumOptions(last.id) = 3 /\ Cardinality(hasVoted) = 2
    /\ Counts(last.id) = <<1, 0, 1>>

Mutating == {"createPrediction", "submitChoice", "closePrediction"}

\* C12: a createPrediction, submitChoice or closePrediction that fails leaves
\* the predictions, the counter handles, the grants, the publicly decryptable
\* flags and the vote records as they were and appends no event.
C12_FailedCallChangesNothing ==
    [][(last'.op \in Mutating /\ last'.err # Ok) => StorageUnchanged]_vars

\* a vote with a bad proof failed on a prediction that already holds a vote,
\* next to a closed prediction
C12_Witness ==
    /\ last.op = "submitChoice" /\ last.err = InvalidProof
    /\ Len(predictions) = 2
    /\ \E who \in 1..PairAddress : Voted(last.id, who)
    /\ \E id \in 0..1 : ~Pred(id).isOpen

\* C13: a vote on an existing open prediction by an address without a vote
\* record whose input proof does not verify fails with InvalidProof and
\* records nothing; the same address voting with a valid proof on the
\* prediction (still open, still no record) succeeds, is recorded and counted.
C13_InvalidProofThenRetry ==
    [][(/\ Called("submitChoice")
        /\ Exists(last'.id)
        /\ Pred(last'.id).isOpen
        /\ ~Voted(last'.id, last'.sender))
       => IF ~last'.proofOk
          THEN /\ last'.err = InvalidProof
               /\ StorageUnchanged
               /\ <<last'.id, last'.sender>> \notin hasVoted'
          ELSE /\ last'.err = Ok
               /\ <<last'.id, last'.sender>> \in hasVoted'
               /\ \A i \in 1..NumOptions(last'.id) :
                     CountsAfter(last'.id)[i] =
                        Counts(last'.id)[i] + (IF last'.choice = i - 1 THEN 1 ELSE 0)
               /\ events'[Len(events')].who = last'.sender]_vars

\* a vote with a bad proof was turned away on an open prediction that already
\* holds the vote of another address; the sender still has no vote record
C13_Witness ==
    /\ last.op = "submitChoice" /\ last.err = InvalidProof
    /\ Exists(last.id) /\ Pred(last.id).isOpen
    /\ ~Voted(last.id, last.sender)
    /\ \E who \in 1..MaxAddress : Voted(last.id, who)

PublicCounters(predictionId) == Range(Pred(predictionId).encryptedCounts) \cap publicDec
PublicCountersAfter(predictionId) ==
    Range(predictions'[predictionId + 1].encryptedCounts) \cap publicDec'
VotersOf(predictionId) == {p \in hasVoted : p[1] = predictionId}
VotersOfAfter(predictionId) == {p \in hasVoted' : p[1] = predictionId}

\* C14: a successful vote or close on prediction X leaves every other
\* prediction Y as it was: its record (isOpen, options, counter handles, hence
\* the decrypted counts), its vote records and the publicly decryptable status
\* of its counters.
C14_OtherPredictionsUntouched ==
    [][(last'.op \in {"submitChoice", "closePrediction"} /\ last'.err = Ok)
       => \A y \in 0..(Len(predictions) - 1) :
             y # last'.id
             => /\ predictions'[y + 1] = Pred(y)
                /\ CountsAfter(y) = Counts(y)
                /\ VotersOfAfter(y) = VotersOf(y)
                /\ PublicCountersAfter(y) = PublicCounters(y)]_vars

\* C15: hasAddressVoted(b, a) returns the vote record of (b, a). The record is
\* absent when b is created, is set by the successful vote of a on b and by
\* no other step (not a vote of another address, not a vote of a on another
\* prediction, not a failed vote, not a close), and is never removed.
C15_VoteRecordSemantics ==
    [][/\ hasVoted \subseteq hasVoted'
       /\ \A p \in hasVoted' \ hasVoted :
             /\ Called("submitChoice") /\ last'.err = Ok
             /\ p = <<last'.id, last'.sender>>
       /\ (Called("submitChoice") /\ last'.err = Ok)
             => /\ ~Voted(last'.id, last'.sender)
                /\ <<last'.id, last'.sender>> \in hasVoted'
       /\ (Called("createPrediction") /\ last'.err = Ok)
             => \A a \in 1..PairAddress : <<last'.ret, a>> \notin hasVoted'
       /\ (Called("hasAddressVoted") /\ Exists(last'.id))
             => /\ last'.err = Ok
                /\ last'.ret = Voted(last'.id, last'.choice)]_vars

\* address 1 is reported as not having voted on prediction 1 although it voted
\* on prediction 0, address 2 voted on prediction 1 and prediction 1 is closed
C15_Witness ==
    /\ last.op = "hasAddressVoted" /\ last.id = 1 /\ last.choice = 1
    /\ last.err = Ok /\ last.ret = FALSE
    /\ hasVoted = {<<0, 1>>, <<1, 2>>}
    /\ ~Pred(1).isOpen

TakesId == {"submitChoice", "closePrediction", "getPrediction",
            "getEncryptedCounts", "hasAddressVoted"}

\* C16: with an id that is not smaller than the number of predictions,
\* submitChoice, closePrediction, getPrediction, getEncryptedCounts and
\* hasAddressVoted fail with "Invalid prediction"; getPredictionCount never
\* fails and returns the number of predictions.
C16_OutOfRangeId ==
    [][/\ (last'.op \in TakesId /\ ~Exists(last'.id))
             => last'.err = InvalidPrediction
       /\ Called("getPredictionCount")
             => last'.err = Ok /\ last'.ret = Len(predictions)]_vars

\* the id one past the last prediction was turned away by a query
C16_Witness ==
    /\ last.op = "getEncryptedCounts" /\ last.err = InvalidPrediction
    /\ Len(predictions) = 1 /\ last.id = 1

\* C17: in every reachable state every counter handle held by a closed
\* prediction is flagged publicly decryptable.
C17_ClosedCountersPublic ==
    \A id \in 0..(Len(predictions) - 1) :
        ~Pred(id).isOpen => Range(Pred(id).encryptedCounts) \subseteq publicDec

\* a prediction was closed after a vote: its counters are distinct handles
C17_Witness ==
    /\ last.op = "closePrediction" /\ last.err = Ok
    /\ Voted(last.id, 1)
    /\ Cardinality(Range(Pred(last.id).encryptedCounts)) = MaxOptions
    /\ ~Pred(last.id).isOpen

\* C18: every closePrediction of an existing open prediction succeeds and
\* closes it, whoever the caller is: the creator or not, a voter or not.
C18_AnyoneCanClose ==
    [][(/\ Called("closePrediction")
        /\ Exists(last'.id)
        /\ Pred(last'.id).isOpen)
       => /\ last'.err = Ok
          /\ ~predictions'[last'.id + 1].isOpen]_vars

\* an address that is neither the creator nor a voter closed a prediction
\* that holds the creator's vote
C18_Witness ==
    /\ last.op = "closePrediction" /\ last.err = Ok
    /\ events[1].type = "PredictionCreated" /\ events[1].who # last.sender
    /\ ~Voted(last.id, last.sender)
    /\ Voted(last.id, events[1].who)
    /\ ~Pred(last.id).isOpen

\* the handles a counter had before the votes that led to handle h
RECURSIVE Replaced(_)
Replaced(h) == IF h[1] = "add" THEN {h[2]} \cup Replaced(h[2]) ELSE {}

ReplacedCounters(predictionId) ==
    UNION { Replaced(Pred(predictionId).encryptedCounts[i]) :
              i \in 1..Len(Pred(predictionId).encryptedCounts) }

\* C19: a counter handle that a prediction held and that a vote replaced is
\* never flagged publicly decryptable.
C19_ReplacedCountersNotPublic ==
    \A id \in 0..(Len(predictions) - 1) : ReplacedCounters(id) \cap publicDec = {}

\* C20: in every reachable state the contract holds a grant on every counter
\* handle stored in every prediction; each handle made by a create or by the
\* add of a vote is granted in the same call.
C20_StoredCountersAllowed ==
    \A id \in 0..(Len(predictions) - 1) :
        Range(Pred(id).encryptedCounts) \subseteq allowed

\* the counters of a prediction after two votes: derived handles, each granted
C20_Witness ==
    /\ Len(predictions) = 1
    /\ Cardinality(VotersOf(0)) = 2
    /\ \A i \in 1..NumOptions(0) :
          /\ Ops(Pred(0).encryptedCounts[i]) = 6
          /\ Pred(0).encryptedCounts[i] \in allowed

EventOf(op) ==
    CASE op = "createPrediction" -> "PredictionCreated"
      [] op = "submitChoice"     -> "VoteSubmitted"
      [] op = "closePrediction"  -> "PredictionClosed"

\* positions of the events of a type for a prediction in a log
EventsAt(log, type, predictionId) ==
    { e \in 1..Len(log) : log[e].type = type /\ log[e].predictionId = predictionId }

\* C21: the event log is append-only; a successful createPrediction,
\* submitChoice or closePrediction appends exactly one event of its type and
\* no other step appends any. Hence, for every prediction, the log holds exactly
\* one PredictionCreated, before every other event of the prediction, at most
\* one VoteSubmitted per voter, at most one PredictionClosed, and no
\* VoteSubmitted after the PredictionClosed.
C21_EventLogMirrorsCalls ==
    [][/\ SubSeq(events', 1, Len(events)) = events
       /\ IF last'.op \in Mutating /\ last'.err = Ok
          THEN /\ Len(events') = Len(events) + 1
               /\ events'[Len(events')].type = EventOf(last'.op)
               /\ events'[Len(events')].predictionId =
                     (IF last'.op = "createPrediction" THEN last'.ret ELSE last'.id)
          ELSE events' = events
       /\ (events' # events \/ predictions' # predictions)
          => \A id \in 0..(Len(predictions') - 1) :
                /\ Cardinality(EventsAt(events', "PredictionCreated", id)) = 1
                /\ \A c \in EventsAt(events', "PredictionCreated", id) :
                      \A e \in 1..Len(events') : events'[e].predictionId = id => c <= e
                /\ \A e1, e2 \in EventsAt(events', "VoteSubmitted", id) :
                      events'[e1].who = events'[e2].who => e1 = e2
                /\ Cardinality(EventsAt(events', "PredictionClosed", id)) <= 1
                /\ \A c \in EventsAt(events', "PredictionClosed", id) :
                      \A e \in EventsAt(events', "VoteSubmitted", id) : e < c
       /\ \A e \in 1..Len(events') : events'[e].predictionId < Len(predictions')]_vars

\* both predictions were created, voted on and closed, and a second vote and a
\* second close have been turned away since
C21_Witness ==
    /\ Len(predictions) = MaxPredictions
    /\ \A id \in 0..(MaxPredictions - 1) :
          /\ EventsAt(events, "VoteSubmitted", id) # {}
          /\ EventsAt(events, "PredictionClosed", id) # {}
    /\ last.op = "closePrediction" /\ last.err = AlreadyClosed
    /\ Len(events) = 3 * MaxPredictions

Views == {"getPrediction", "getEncryptedCounts", "hasAddressVoted", "getPredictionCount"}

\* C22: getPrediction, getEncryptedCounts, hasAddressVoted and
\* getPredictionCount, failing or not, leave the predictions, the vote
\* records, the grants, the publicly decryptable flags and the event log as
\* they were.
C22_ViewsChangeNothing ==
    [][last'.op \in Views => StorageUnchanged]_vars

\* getEncryptedCounts returned the counters of an open prediction that holds
\* a vote, while the other prediction is closed; no flag was given for them
C22_Witness ==
    /\ last.op = "getEncryptedCounts" /\ last.err = Ok
    /\ Len(predictions) = MaxPredictions
    /\ Pred(last.id).isOpen /\ Voted(last.id, 1)
    /\ last.ret = Pred(last.id).encryptedCounts
    /\ Range(last.ret) \cap publicDec = {}
    /\ \E id \in 0..(MaxPredictions - 1) : ~Pred(id).isOpen

\* C23: the number of predictions never decreases, and the name, the options
\* and createdAt of an existing prediction never change: they are those of its
\* PredictionCreated event, and getPrediction returns them in every later
\* state.
C23_IdentityFieldsImmutable ==
    [][/\ Len(predictions') >= Len(predictions)
       /\ \A id \in 0..(Len(predictions) - 1) :
             /\ predictions'[id + 1].name = Pred(id).name
             /\ predictions'[id + 1].options = Pred(id).options
             /\ predictions'[id + 1].createdAt = Pred(id).createdAt
       /\ (events' # events \/ predictions' # predictions)
          => \A id \in 0..(Len(predictions') - 1) :
                \E c \in EventsAt(events', "PredictionCreated", id) :
                   /\ events'[c].name = predictions'[id + 1].name
                   /\ events'[c].options = predictions'[id + 1].options
       /\ (Called("getPrediction") /\ Exists(last'.id))
             => /\ last'.err = Ok
                /\ last'.ret[1] = Pred(last'.id).name
                /\ last'.ret[2] = Pred(last'.id).options
                /\ last'.ret[5] = Pred(last'.id).createdAt]_vars

\* getPrediction returns the options prediction 0 was created with, after a
\* vote on it, its close and the creation of a prediction with other options
C23_Witness ==
    /\ last.op = "getPrediction" /\ last.err = Ok /\ last.id = 0
    /\ Len(predictions) = MaxPredictions
    /\ Voted(0, 1) /\ ~Pred(0).isOpen
    /\ events[1].type = "PredictionCreated"
    /\ last.ret[2] = events[1].options
    /\ Pred(1).options # last.ret[2]

\* C24: a vote with a valid proof whose plaintext is not an option index
\* (k >= n), on an open prediction by an address that has not voted, succeeds:
\* every counter handle is replaced, every decrypted count keeps its value,
\* the address is recorded as voted and VoteSubmitted is emitted.
C24_InvalidIndexConsumesVote ==
    [][(/\ Called("submitChoice")
        /\ Exists(last'.id)
        /\ Pred(last'.id).isOpen
        /\ ~Voted(last'.id, last'.sender)
        /\ last'.proofOk
        /\ last'.choice >= NumOptions(last'.id))
       => /\ last'.err = Ok
          /\ \A i \in 1..NumOptions(last'.id) :
                predictions'[last'.id + 1].encryptedCounts[i] # Pred(last'.id).encryptedCounts[i]
          /\ CountsAfter(last'.id) = Counts(last'.id)
          /\ hasVoted' = hasVoted \cup {<<last'.id, last'.sender>>}
          /\ events' = Append(events,
                [type |-> "VoteSubmitted", predictionId |-> last'.id, who |-> last'.sender,
                 name |-> "", options |-> <<>>, handle |-> fromExternal(last'.sender, last'.choice)])]_vars

\* after a vote of the other address for option 0, a vote for index n was
\* accepted: two addresses are recorded and the counts are [1, 0, ...]
C24_Witness ==
    /\ last.op = "submitChoice" /\ last.err = Ok
    /\ last.choice = NumOptions(last.id)
    /\ Cardinality(VotersOf(last.id)) = 2
    /\ Counts(last.id) = [i \in 1..NumOptions(last.id) |-> IF i = 1 THEN 1 ELSE 0]

RECURSIVE SumSeq(_)
SumSeq(s) == IF s = <<>> THEN 0 ELSE s[1] + SumSeq(Tail(s))

\* C25: in every reachable state, for every prediction, the decrypted counts
\* add up to at most the number of addresses recorded as having voted on it,
\* and to exactly that number when every recorded vote was for one of its
\* options.
C25_CountsBoundedByVoters ==
    \A id \in 0..(Len(predictions) - 1) :
        /\ SumSeq(Counts(id)) <= Cardinality(VotersOf(id))
        /\ AllVotesValid(id) => SumSeq(Counts(id)) = Cardinality(VotersOf(id))

\* a closed prediction with two recorded voters, one of whom voted for an index
\* that is not an option: the counts add up to 1
C25_Witness ==
    /\ Idle /\ Exists(0) /\ ~Pred(0).isOpen
    /\ Cardinality(VotersOf(0)) = 2
    /\ ~AllVotesValid(0)
    /\ SumSeq(Counts(0)) = 1

\* C26: once a prediction is closed, its counter handles, their decrypted
\* values and the set of addresses recorded as having voted on it are the same
\* after every step, whatever is called (a step that writes neither a
\* prediction nor a vote record keeps them as they are).
C26_ClosedTallyFrozen ==
    [][(predictions' # predictions \/ hasVoted' # hasVoted)
       => \A id \in 0..(Len(predictions) - 1) :
             ~Pred(id).isOpen
             => /\ predictions'[id + 1].encryptedCounts = Pred(id).encryptedCounts
                /\ CountsAfter(id) = Counts(id)
                /\ VotersOfAfter(id) = VotersOf(id)
                /\ ~predictions'[id + 1].isOpen]_vars

\* a vote on the closed prediction 0 was turned away after prediction 1 took a
\* vote; prediction 0 still shows its one vote
C26_Witness ==
    /\ last.op = "submitChoice" /\ last.id = 0 /\ last.err = BallotClosed
    /\ Len(predictions) = MaxPredictions
    /\ ~Pred(0).isOpen /\ Voted(0, 1) /\ Voted(1, 1)
    /\ SumSeq(Counts(0)) = 1
    /\ events[Len(events)].type = "VoteSubmitted" /\ events[Len(events)].predictionId = 1

\* a text that is not empty and has no space at either end
Trimmed(text) == text # <<>> /\ Head(text) # Space /\ text[Len(text)] # Space

\* C27: every createPrediction the form sends passes the validation of the
\* contract: whatever was added, removed and typed before the submit, the
\* handler calls the contract with a trimmed non-empty name and with 2 to 4
\* labels, each trimmed and non-empty, and the call does not revert.
C27_FormSendsValidInput ==
    [][/\ \A r \in 1..Len(running') :
             running'[r].tag = CreateTag
             => /\ Trimmed(running'[r].name)
                /\ Len(running'[r].options) \in MinOptions..MaxOptions
                /\ \A i \in 1..Len(running'[r].options) : Trimmed(running'[r].options[i])
       /\ (Idle /\ Called("createPrediction"))
             => /\ \E r \in 1..Len(running) :
                      /\ running[r].tag = CreateTag
                      /\ last'.name = Str(running[r].name)
                      /\ last'.options = StrAll(running[r].options)
                /\ last'.err = Ok]_vars

\* the form held "X " and three fields " A" among its fields when it was
\* submitted: the contract accepted the name "X" with three labels "A"
C27_Witness ==
    /\ last.op = "createPrediction" /\ last.err = Ok
    /\ last.name = "X" /\ last.options = <<"A", "A", "A">>
    /\ Len(predictions) = 1
    /\ pendingAction = Null /\ formTitle = <<>>

\* C28: while a handler started from the UI (create, vote-<id>, close-<id>,
\* decrypt-<id>) is waiting for its transaction or for the relayer,
\* pendingAction is the tag of that handler, so the control that started it is
\* disabled until that handler finishes.
C28_PendingActionTracksRunning ==
    \A r \in 1..Len(running) : pendingAction = running[r].tag
====
